---- MODULE Spec2Model ----
(***************************************************************************)
(* Hong Kong Monthly Temperature Matrix (src/main.js).                     *)
(*                                                                         *)
(* The page loads one CSV file, parses every row (parseRow), keeps the     *)
(* last YEAR_COUNT calendar years (filterLastYears), groups the rows into  *)
(* one Cell per (year, month) (aggregateByYearMonth) and draws the matrix  *)
(* (drawMatrix), which installs a click handler on the chart and           *)
(* mouseover / mouseout handlers on every cell rectangle.                  *)
(*                                                                         *)
(* JavaScript values are modelled as records [k, n, d]: a number is the    *)
(* reduced fraction n/d (k = "num"), and NaN and undefined are the two     *)
(* other kinds.  Arithmetic is exact: the rounding of IEEE doubles is not  *)
(* modelled.                                                               *)
(***************************************************************************)
EXTENDS Integers, Sequences, FiniteSets

\* ------------------------------------------------------------------------
\* JavaScript values
\* ------------------------------------------------------------------------

NaN == [k |-> "NaN", n |-> 0, d |-> 1]

Undefined == [k |-> "undefined", n |-> 0, d |-> 1]

Abs(x) == IF x < 0 THEN -x ELSE x

RECURSIVE GCD(_, _)
GCD(a, b) == IF b = 0 THEN a ELSE GCD(b, a % b)

\* the number n/d (d > 0), in lowest terms
Frac(n, d) ==
  LET g == GCD(Abs(n), d)
  IN  [k |-> "num", n |-> n \div g, d |-> d \div g]

Num(n) == Frac(n, 1)

IsNum(v) == v.k = "num"

\* a - b : NaN as soon as one operand is not a number
JsSub(a, b) ==
  IF IsNum(a) /\ IsNum(b) THEN Frac(a.n * b.d - b.n * a.d, a.d * b.d) ELSE NaN

\* a > b : false as soon as one operand is not a number
JsGt(a, b) == IsNum(a) /\ IsNum(b) /\ a.n * b.d > b.n * a.d

\* the values of a sequence that d3-array counts: value != null && +value >= +value
Numeric(vs) == SelectSeq(vs, IsNum)

\* the sum of the first k values of vs
RECURSIVE SumUpTo(_, _)
SumUpTo(vs, k) ==
  IF k = 0 THEN Num(0)
  ELSE LET h == vs[k]
           t == SumUpTo(vs, k - 1)
       IN  Frac(h.n * t.d + t.n * h.d, h.d * t.d)

SumSeq(vs) == SumUpTo(vs, Len(vs))

\* the greatest of a non-empty sequence of numbers
MaxSeq(vs) ==
  vs[CHOOSE i \in 1..Len(vs) : \A j \in 1..Len(vs) : ~JsGt(vs[j], vs[i])]

\* the least of a non-empty sequence of numbers
MinSeq(vs) ==
  vs[CHOOSE i \in 1..Len(vs) : \A j \in 1..Len(vs) : ~JsGt(vs[i], vs[j])]

\* d3.max(values): the greatest number, NaN and undefined ignored; undefined if none
d3_max(vs) == IF Numeric(vs) = <<>> THEN Undefined ELSE MaxSeq(Numeric(vs))

\* d3.min(values): the least number, NaN and undefined ignored; undefined if none
d3_min(vs) == IF Numeric(vs) = <<>> THEN Undefined ELSE MinSeq(Numeric(vs))

\* d3_mean dividing by the length of the array instead of the count of numbers
d3_meanOverLength(vs) ==
  LET nums == Numeric(vs)
      s    == SumSeq(nums)
  IN  IF nums = <<>> THEN Undefined ELSE Frac(s.n, s.d * Len(vs))

\* d3.mean(values): sum / count over the numbers, NaN and undefined ignored;
\* undefined when there is no number
d3_mean(vs) ==
  LET nums == Numeric(vs)
      s    == SumSeq(nums)
  IN  IF nums = <<>> THEN Undefined ELSE Frac(s.n, s.d * Len(nums))

\* the elements of s at the positions in idx, in order
AtPositions(s, idx) ==
  [k \in 1..Cardinality(idx) |->
     s[CHOOSE i \in idx : Cardinality({j \in idx : j < i}) = k - 1]]

\* the distinct values of a sequence, in order of first appearance (the key
\* order of the Map that d3.group builds, and of a Set)
Keys(vs) ==
  AtPositions(vs, {i \in 1..Len(vs) : \A j \in 1..(i - 1) : vs[j] # vs[i]})

\* the concatenation of the first k sequences of ss
RECURSIVE FlattenUpTo(_, _)
FlattenUpTo(ss, k) == IF k = 0 THEN <<>> ELSE FlattenUpTo(ss, k - 1) \o ss[k]

Flatten(ss) == FlattenUpTo(ss, Len(ss))

Map(s, F(_)) == [i \in 1..Len(s) |-> F(s[i])]

\* Array.prototype.sort() of an array of numbers.  The default comparison is
\* by the decimal text; for years written with the same number of digits it
\* is the numeric order, which is what is computed here.
Sort(vs) ==
  [k \in 1..Len(vs) |->
     vs[CHOOSE i \in 1..Len(vs) :
          Cardinality({j \in 1..Len(vs) :
                         JsGt(vs[i], vs[j]) \/ (vs[j] = vs[i] /\ j < i)}) = k - 1]]

\* ------------------------------------------------------------------------
\* Constants
\* ------------------------------------------------------------------------

YEAR_COUNT == 10

MONTH_NAMES == <<"Jan", "Feb", "Mar", "Apr", "May", "Jun",
                 "Jul", "Aug", "Sep", "Oct", "Nov", "Dec">>

TEMP_MIN == 0

TEMP_MAX == 40

\* ------------------------------------------------------------------------
\* Data helpers
\* ------------------------------------------------------------------------

\* Unary plus on the text of a CSV field.  A text is a string; the table
\* gives the coercion of the texts the inputs are drawn from: a decimal
\* numeral is its number, the empty text is 0, any other text is NaN.
ToNumber(s) ==
  CASE s = "30" -> Num(30)
    [] s = "31" -> Num(31)
    [] s = "20" -> Num(20)
    [] s = ""   -> Num(0)
    [] OTHER    -> NaN

\* new Date(text), read through getFullYear() / getMonth() / getDate().
\* The text of a date is <<y, m, d>> for the calendar day y-m-d (months
\* written 1..12) and any other tuple for a text that is no date; the day
\* is taken to be read back in the zone it was written in.  getMonth() is
\* 0-based.  An Invalid Date answers NaN.
NewDate(t) ==
  IF Len(t) = 3
  THEN [fullYear |-> Num(t[1]), month |-> Num(t[2] - 1), day |-> Num(t[3])]
  ELSE [fullYear |-> NaN, month |-> NaN, day |-> NaN]

\* parseRow with `+text || 0`: a text that is no number becomes 0
parseRowOrZero(d) ==
  LET OrZero(v) == IF IsNum(v) THEN v ELSE Num(0)
  IN  [date |-> NewDate(d.date),
       max  |-> OrZero(ToNumber(d.max_temperature)),
       min  |-> OrZero(ToNumber(d.min_temperature))]

parseRow(d) ==
  [date |-> NewDate(d.date),
   max  |-> ToNumber(d.max_temperature),
   min  |-> ToNumber(d.min_temperature)]

\* d3.csv(file, parseRow): one record per row, none dropped (parseRow never
\* returns null)
ParseCsv(rows) == Map(rows, parseRow)

getFullYear(d) == d.date.fullYear

getMonth(d) == d.date.month

filterLastYears(data, n) ==
  LET maxYear == d3_max(Map(data, getFullYear))
      Keep(d) == JsGt(getFullYear(d), JsSub(maxYear, Num(n)))
  IN  SelectSeq(data, Keep)

\* one Cell of the (year, month) group `days`
MakeCell(year, month, days) ==
  LET Max(d) == d.max
      Min(d) == d.min
  IN  [year   |-> year,
       month  |-> month,
       avgMax |-> d3_mean(Map(days, Max)),
       avgMin |-> d3_mean(Map(days, Min)),
       days   |-> days]

\* CellsOfYear grouping by month alone: the rows are not narrowed to the year
CellsOfYearByMonthOnly(data, year) ==
  LET months    == Keys(Map(data, getMonth))
      Of(month) == LET InMonth(d) == getMonth(d) = month
                   IN  MakeCell(year, month, SelectSeq(data, InMonth))
  IN  Map(months, Of)

\* the Cells of one year of d3.group's nested Map, months in insertion order
CellsOfYear(data, year) ==
  LET InYear(d) == getFullYear(d) = year
      rows      == SelectSeq(data, InYear)
      months    == Keys(Map(rows, getMonth))
      Of(month) == LET InMonth(d) == getMonth(d) = month
                   IN  MakeCell(year, month, SelectSeq(rows, InMonth))
  IN  Map(months, Of)

aggregateByYearMonth(data) ==
  LET years    == Keys(Map(data, getFullYear))
      Of(year) == CellsOfYear(data, year)
  IN  Flatten(Map(years, Of))

\* ------------------------------------------------------------------------
\* Color scale
\* ------------------------------------------------------------------------

\* buildColorScale()(x): d3.scaleSequential(d3.interpolateRdYlBu) over the
\* reversed domain [TEMP_MAX, TEMP_MIN].  The color is named by its place t
\* on the RdYlBu ramp, t = (x - TEMP_MAX) / (TEMP_MIN - TEMP_MAX), which the
\* ramp clamps to [0, 1] (t = 0 red, t = 1 blue).  A value that is no number
\* has no color: the scale answers its `unknown`, undefined.
colorScale(x) ==
  IF ~IsNum(x) THEN Undefined
  ELSE LET t == Frac(TEMP_MAX * x.d - x.n, (TEMP_MAX - TEMP_MIN) * x.d)
       IN  IF t.n < 0 THEN Num(0) ELSE IF t.n > t.d THEN Num(1) ELSE t

\* ------------------------------------------------------------------------
\* Tooltip
\* ------------------------------------------------------------------------

\* showTooltip(event, html): event is <<pageX, pageY>>
showTooltip(event, html) ==
  [display |-> "block", left |-> event[1] + 14, top |-> event[2] - 36, html |-> <<html>>]

hideTooltip(tip) == [tip EXCEPT !.display = "none"]

\* Number.prototype.toFixed(1): the text of the nearest multiple of 0.1, a
\* tie going away from zero; kept as the count of tenths.  NaN gives "NaN".
toFixed1(v) ==
  IF ~IsNum(v) THEN [nan |-> TRUE, tenths |-> 0]
  ELSE LET q == (20 * Abs(v.n) + v.d) \div (2 * v.d)
       IN  [nan |-> FALSE, tenths |-> IF v.n < 0 THEN -q ELSE q]

\* the word the tooltip and the mode label use for a mode
ModeWord(m) == IF m = "max" THEN "Max" ELSE "Min"

\* the value the mouseover handler reads for the cell datum d under mode m
HoverTemp(d, m) == IF m = "max" THEN d.avgMax ELSE d.avgMin

\* the label of the mouseover handler: month name, year, mode word, value
HoverLabel(d, m) ==
  [month |-> MONTH_NAMES[d.month.n + 1],
   year  |-> d.year,
   word  |-> ModeWord(m),
   value |-> toFixed1(HoverTemp(d, m))]

\* ------------------------------------------------------------------------
\* Sparklines and legend
\* ------------------------------------------------------------------------

\* drawSparklines: per cell the two traces (daily max, daily min) over the
\* x domain [1, days.length], all cells sharing the y domain
\* [tempMin, tempMax] taken over every day of every cell
drawSparklines(cells) ==
  LET Max(d)     == d.max
      Min(d)     == d.min
      CellMin(c) == d3_min(Map(c.days, Min))
      CellMax(c) == d3_max(Map(c.days, Max))
      tempMin    == d3_min(Map(cells, CellMin))
      tempMax    == d3_max(Map(cells, CellMax))
      Of(c)      == [year    |-> c.year,
                     month   |-> c.month,
                     domainX |-> <<1, Len(c.days)>>,
                     domainY |-> <<tempMin, tempMax>>,
                     lineMax |-> Map(c.days, Max),
                     lineMin |-> Map(c.days, Min)]
  IN  Map(cells, Of)

\* drawLegend: the gradient bar over the fixed range, drawn once
drawLegend == <<[domain |-> <<TEMP_MIN, TEMP_MAX>>, stops |-> 11, ticks |-> 5]>>

\* ------------------------------------------------------------------------
\* Matrix
\* ------------------------------------------------------------------------

\* ToggleMode that only ever switches to "min"
ToggleModeToMin(m) == "min"

\* the mode a click switches to
ToggleMode(m) == IF m = "max" THEN "min" ELSE "max"

\* the accessor the click handler picks for the mode it has just set
Accessor(d, m) == IF m = "max" THEN d.avgMax ELSE d.avgMin

\* Recolor that keeps the initial accessor, avgMax, whatever the mode
RecolorAvgMax(cells, m) ==
  LET Of(d) == colorScale(d.avgMax) IN Map(cells, Of)

\* the fills the click handler's transition ends at, one per rect.cell
Recolor(cells, m) ==
  LET Of(d) == colorScale(Accessor(d, m)) IN Map(cells, Of)

\* the text the click handler writes to #mode-label
ModeLabelText(m) == "Showing: " \o ModeWord(m) \o " Temp"

\* InitialFill with the accessor of the other mode
InitialFillAvgMin(cells) ==
  LET Of(d) == colorScale(d.avgMin) IN Map(cells, Of)

\* the fills drawMatrix gives the rects: the initial accessor is avgMax
InitialFill(cells) ==
  LET Of(d) == colorScale(d.avgMax) IN Map(cells, Of)

\* the x and y band axes drawMatrix appends
drawAxes(years) == <<[x |-> years, y |-> MONTH_NAMES]>>

\* the text of #mode-label and the state of #tooltip in the page as loaded
InitialModeLabel == ModeLabelText("max")

InitialTooltip == [display |-> "none", left |-> 0, top |-> 0, html |-> <<>>]

\* ------------------------------------------------------------------------
\* Bounds and inputs
\* ------------------------------------------------------------------------

\* rows of the CSV file the page loads
MaxCsvRows == 2

\* rows handed to a data helper called on its own
MaxRows == 3

\* clicks followed on one page
MaxClicks == 3

\* days per month of the synthetic two-year file
DaysPerMonth == 2

\* texts of the date column: days of 2009, 2020 and 2021, and a text that is
\* no date
DateTexts == {<<2009, 3, 1>>, <<2020, 1, 1>>, <<2021, 1, 1>>, <<2021, 2, 1>>, <<"this", "is", "no", "date">>}

\* texts of the max_temperature and min_temperature columns
TempTexts == {<<"30", "20">>, <<"31", "abc">>, <<"abc", "20">>, <<"", "20">>}

RawRows ==
  {[date |-> dt, max_temperature |-> t[1], min_temperature |-> t[2]] :
     dt \in DateTexts, t \in TempTexts}

SeqsUpTo(S, n) == UNION {[1..k -> S] : k \in 0..n}

\* window sizes filterLastYears is called with
WindowSizes == {0, 1, 2, YEAR_COUNT}

\* positions <<pageX, pageY>> of the pointer
PointerEvents == {<<10, 50>>, <<200, 120>>}

\* the synthetic file: two years, twelve months each, every day 30 / 20
SyntheticYears == <<2020, 2021>>

SyntheticCsv ==
  [i \in 1..(2 * 12 * DaysPerMonth) |->
     [date |-> <<SyntheticYears[((i - 1) \div (12 * DaysPerMonth)) + 1],
                 (((i - 1) \div DaysPerMonth) % 12) + 1,
                 ((i - 1) % DaysPerMonth) + 1>>,
      max_temperature |-> "30",
      min_temperature |-> "20"]]

\* ------------------------------------------------------------------------
\* State
\* ------------------------------------------------------------------------

VARIABLES
  csv,         \* the rows of temperature_daily.csv
  phase,       \* "loading" | "rendered" | "failed": the d3.csv promise
  cells,       \* the Cells bound to the rect.cell elements, in document order
  fill,        \* the fill of each rect.cell (the end of a running transition)
  axes,        \* the axes drawn
  sparklines,  \* the sparklines drawn
  legend,      \* the legend drawn
  listeners,   \* the event listeners installed: "click" on #chart,
               \* "mouseover" and "mouseout" on the rects
  mode,        \* the module-level `mode`
  label,       \* the text of #mode-label
  tooltip,     \* display, left, top and content of #tooltip
  renders,     \* how many times drawMatrix has run
  clicks,      \* how many times the click handler has run
  before,      \* what was shown before each of the last two clicks
  lastPointer, \* the last pointer event on a cell: "none" | "over" | "out"
  call         \* a data helper called on its own: its name, arguments, result

vars == <<csv, phase, cells, fill, axes, sparklines, legend, listeners, mode,
          label, tooltip, renders, clicks, before, lastPointer, call>>

page == <<phase, cells, fill, axes, sparklines, legend, listeners, mode,
          label, tooltip, renders, clicks, before, lastPointer>>

NoCall == [fn |-> "none", rows |-> <<>>, n |-> 0, data |-> <<>>, cells |-> <<>>]

\* what the page shows of the mode
Shown == [mode |-> mode, fill |-> fill, label |-> label]

\* the page before the load settles: nothing drawn, no listener, mode "max"
InitPage ==
  /\ phase = "loading"
  /\ cells = <<>>
  /\ fill = <<>>
  /\ axes = <<>>
  /\ sparklines = <<>>
  /\ legend = <<>>
  /\ listeners = {}
  /\ mode = "max"
  /\ label = InitialModeLabel
  /\ tooltip = InitialTooltip
  /\ renders = 0
  /\ clicks = 0
  /\ before = <<>>
  /\ lastPointer = "none"

Init ==
  /\ csv \in SeqsUpTo(RawRows, MaxCsvRows)
  /\ InitPage
  /\ call = NoCall

\* ------------------------------------------------------------------------
\* Entry point
\* ------------------------------------------------------------------------

\* drawMatrix(cells, years): what it leaves on the page
drawMatrix(cs, years) ==
  [listeners  |-> {"click", "mouseover", "mouseout"},
   cells      |-> cs,
   fill       |-> InitialFill(cs),
   axes       |-> drawAxes(years),
   sparklines |-> drawSparklines(cs),
   legend     |-> drawLegend]

\* the promise of d3.csv is fulfilled: the .then callback runs, once
LoadSucceed ==
  /\ phase = "loading"
  /\ LET data     == ParseCsv(csv)
         filtered == filterLastYears(data, YEAR_COUNT)
         cs       == aggregateByYearMonth(filtered)
         years    == Sort(Keys(Map(filtered, getFullYear)))
         drawn    == drawMatrix(cs, years)
     IN  /\ cells' = drawn.cells
         /\ fill' = drawn.fill
         /\ axes' = drawn.axes
         /\ sparklines' = drawn.sparklines
         /\ legend' = drawn.legend
         /\ listeners' = drawn.listeners
  /\ phase' = "rendered"
  /\ renders' = renders + 1
  /\ UNCHANGED <<csv, mode, label, tooltip, clicks, before, lastPointer, call>>

\* LoadFail with a rejection handler that draws an empty matrix
LoadFailDrawsEmpty ==
  /\ phase = "loading"
  /\ phase' = "failed"
  /\ LET drawn == drawMatrix(<<>>, <<>>)
     IN  /\ cells' = drawn.cells
         /\ fill' = drawn.fill
         /\ axes' = drawn.axes
         /\ sparklines' = drawn.sparklines
         /\ legend' = drawn.legend
         /\ listeners' = drawn.listeners
  /\ UNCHANGED <<csv, mode, label, tooltip, renders, clicks, before, lastPointer, call>>

\* the promise of d3.csv is rejected: there is no rejection handler
LoadFail ==
  /\ phase = "loading"
  /\ phase' = "failed"
  /\ UNCHANGED <<csv, cells, fill, axes, sparklines, legend, listeners, mode,
                 label, tooltip, renders, clicks, before, lastPointer, call>>

\* ------------------------------------------------------------------------
\* Events
\* ------------------------------------------------------------------------

\* Click whose handler also hides the tooltip
ClickHidingTooltip ==
  /\ "click" \in listeners
  /\ clicks < MaxClicks
  /\ mode' = ToggleMode(mode)
  /\ fill' = Recolor(cells, mode')
  /\ label' = ModeLabelText(mode')
  /\ tooltip' = hideTooltip(tooltip)
  /\ clicks' = clicks + 1
  /\ before' = IF before = <<>> THEN <<Shown>> ELSE <<before[Len(before)], Shown>>
  /\ UNCHANGED <<csv, phase, cells, axes, sparklines, legend, listeners,
                 renders, lastPointer, call>>

\* a click on #chart, the click handler installed
Click ==
  /\ "click" \in listeners
  /\ clicks < MaxClicks
  /\ mode' = ToggleMode(mode)
  /\ fill' = Recolor(cells, mode')
  /\ label' = ModeLabelText(mode')
  /\ clicks' = clicks + 1
  /\ before' = IF before = <<>> THEN <<Shown>> ELSE <<before[Len(before)], Shown>>
  /\ UNCHANGED <<csv, phase, cells, axes, sparklines, legend, listeners,
                 tooltip, renders, lastPointer, call>>

\* a click on #chart while no click handler is installed
ClickNoHandler ==
  /\ "click" \notin listeners
  /\ UNCHANGED vars

\* mouseover on the i-th rect.cell at pointer position event.  The handler
\* calls temp.toFixed(1): when temp is undefined that is a TypeError, and
\* the handler ends before showTooltip.
Mouseover(i, event) ==
  /\ "mouseover" \in listeners
  /\ i \in 1..Len(cells)
  /\ LET d    == cells[i]
         temp == HoverTemp(d, mode)
     IN  tooltip' = IF temp = Undefined THEN tooltip
                    ELSE showTooltip(event, HoverLabel(d, mode))
  /\ lastPointer' = "over"
  /\ UNCHANGED <<csv, phase, cells, fill, axes, sparklines, legend, listeners,
                 mode, label, renders, clicks, before, call>>

\* mouseout of a rect.cell
Mouseout ==
  /\ "mouseout" \in listeners
  /\ cells # <<>>
  /\ tooltip' = hideTooltip(tooltip)
  /\ lastPointer' = "out"
  /\ UNCHANGED <<csv, phase, cells, fill, axes, sparklines, legend, listeners,
                 mode, label, renders, clicks, before, call>>

Hover == \E i \in 1..Len(cells), event \in PointerEvents : Mouseover(i, event)

Next ==
  \/ LoadSucceed
  \/ LoadFail
  \/ Click
  \/ ClickNoHandler
  \/ Hover
  \/ Mouseout

Spec == Init /\ [][Next]_vars

\* the page loading the synthetic two-year file
InitE2E ==
  /\ csv = SyntheticCsv
  /\ InitPage
  /\ call = NoCall

SpecE2E == InitE2E /\ [][Next]_vars

\* ------------------------------------------------------------------------
\* The data helpers called on their own
\* ------------------------------------------------------------------------

InitHelpers ==
  /\ csv = <<>>
  /\ InitPage
  /\ call = NoCall

\* rows.map(parseRow)
CallParseRow(rows) ==
  /\ call' = [fn |-> "parseRow", rows |-> rows, n |-> 0,
              data |-> ParseCsv(rows), cells |-> <<>>]
  /\ UNCHANGED <<csv, page>>

\* filterLastYears(rows.map(parseRow), n)
CallFilterLastYears(rows, n) ==
  /\ call' = [fn |-> "filterLastYears", rows |-> rows, n |-> n,
              data |-> filterLastYears(ParseCsv(rows), n), cells |-> <<>>]
  /\ UNCHANGED <<csv, page>>

\* aggregateByYearMonth(rows.map(parseRow))
CallAggregate(rows) ==
  /\ call' = [fn |-> "aggregateByYearMonth", rows |-> rows, n |-> 0,
              data |-> ParseCsv(rows), cells |-> aggregateByYearMonth(ParseCsv(rows))]
  /\ UNCHANGED <<csv, page>>

ParseRows ==
  /\ call.fn = "none"
  /\ \E rows \in SeqsUpTo(RawRows, MaxRows) : CallParseRow(rows)

FilterRows ==
  /\ call.fn = "none"
  /\ \E rows \in SeqsUpTo(RawRows, MaxRows), n \in WindowSizes : CallFilterLastYears(rows, n)

AggregateRows ==
  /\ call.fn = "none"
  /\ \E rows \in SeqsUpTo(RawRows, MaxRows) : CallAggregate(rows)

NextHelpers ==
  \/ ParseRows
  \/ FilterRows
  \/ AggregateRows

SpecHelpers == InitHelpers /\ [][NextHelpers]_vars

\* ------------------------------------------------------------------------
\* Properties of the data helpers (checked under SpecHelpers)
\* ------------------------------------------------------------------------

\* the parsed rows the helper was called with
Input == ParseCsv(call.rows)

Indices(s) == 1..Len(s)

\* the year values that occur in data
YearsIn(data) == {y \in {getFullYear(data[i]) : i \in Indices(data)} : IsNum(y)}

\* the n greatest of them
TopYears(data, n) ==
  {y \in YearsIn(data) : Cardinality({z \in YearsIn(data) : JsGt(z, y)}) < n}

\* the rows of data whose year is one of ys, in order
RowsOfYears(data, ys) ==
  LET In(d) == getFullYear(d) \in ys IN SelectSeq(data, In)

\* C1: filterLastYears(data, N) retains exactly the rows whose year is among
\* the N greatest distinct year values that occur in data, also when those
\* years are not consecutive.
C1_RetainsTopDistinctYears ==
  call.fn = "filterLastYears" =>
    call.data = RowsOfYears(Input, TopYears(Input, call.n))

\* the rows of data that share the (year, month) of Cell c
Sharing(data, c) ==
  LET Same(d) == getFullYear(d) = c.year /\ getMonth(d) = c.month
  IN  SelectSeq(data, Same)

MaxOf(days) == [i \in Indices(days) |-> days[i].max]

MinOf(days) == [i \in Indices(days) |-> days[i].min]

\* avg is the arithmetic mean of the values vs: every value is a number and
\* avg * (number of values) = sum of the values
IsMeanOf(avg, vs) ==
  /\ vs # <<>>
  /\ \A i \in Indices(vs) : IsNum(vs[i])
  /\ IsNum(avg)
  /\ LET sum == SumSeq(vs) IN avg.n * Len(vs) * sum.d = sum.n * avg.d

\* avg is the arithmetic mean of the numbers among vs, undefined without any
IsMeanOfNumbers(avg, vs) ==
  IF Numeric(vs) = <<>> THEN avg = Undefined ELSE IsMeanOf(avg, Numeric(vs))

\* C2, as claimed: every Cell's avgMax (avgMin) is the arithmetic mean of max
\* (min) over exactly the input rows that share the Cell's (year, month).
C2_MeanOverAllRows ==
  call.fn = "aggregateByYearMonth" =>
    \A i \in Indices(call.cells) :
      LET c == call.cells[i]
      IN  /\ IsMeanOf(c.avgMax, MaxOf(Sharing(Input, c)))
          /\ IsMeanOf(c.avgMin, MinOf(Sharing(Input, c)))

\* C2, amended: every Cell's avgMax (avgMin) is the arithmetic mean of max
\* (min) over those of the input rows sharing the Cell's (year, month) whose
\* max (min) is a number, and undefined when no such row has a number.
C2_MeanOverNumericRows ==
  call.fn = "aggregateByYearMonth" =>
    \A i \in Indices(call.cells) :
      LET c == call.cells[i]
      IN  /\ IsMeanOfNumbers(c.avgMax, MaxOf(Sharing(Input, c)))
          /\ IsMeanOfNumbers(c.avgMin, MinOf(Sharing(Input, c)))

\* a Cell of three days, one of them without a numeric max, averaged over the
\* other two (30 and 31)
C2_Witness ==
  /\ call.fn = "aggregateByYearMonth"
  /\ \E i \in Indices(call.cells) :
       /\ Len(call.cells[i].days) = 3
       /\ call.cells[i].avgMax = Frac(61, 2)
       /\ call.cells[i].avgMin = Num(20)

\* one Cell per (year, month) of the input: distinct keys, non-empty days,
\* every Cell holding exactly the rows of its key, every row's key a Cell's
OneCellPerPair ==
  /\ \A i, j \in Indices(call.cells) :
       i # j => <<call.cells[i].year, call.cells[i].month>>
                  # <<call.cells[j].year, call.cells[j].month>>
  /\ \A i \in Indices(call.cells) :
       /\ call.cells[i].days # <<>>
       /\ call.cells[i].days = Sharing(Input, call.cells[i])
  /\ \A k \in Indices(Input) :
       Cardinality({i \in Indices(call.cells) :
                      /\ call.cells[i].year = getFullYear(Input[k])
                      /\ call.cells[i].month = getMonth(Input[k])}) = 1

\* C3, as claimed: one Cell per (year, month) pair of the input, and a month
\* with a single row yields a Cell whose avgMax is that row's max.
C3_OneCellPerPairSingleIsMax ==
  call.fn = "aggregateByYearMonth" =>
    /\ OneCellPerPair
    /\ \A i \in Indices(call.cells) :
         Len(call.cells[i].days) = 1 =>
           call.cells[i].avgMax = call.cells[i].days[1].max

\* C3, amended: one Cell per (year, month) pair of the input, and a month
\* with a single row yields a Cell whose avgMax is that row's max when that
\* max is a number, and undefined when it is not.
C3_OneCellPerPairSingleIsNumericMax ==
  call.fn = "aggregateByYearMonth" =>
    /\ OneCellPerPair
    /\ \A i \in Indices(call.cells) :
         Len(call.cells[i].days) = 1 =>
           call.cells[i].avgMax =
             IF IsNum(call.cells[i].days[1].max)
             THEN call.cells[i].days[1].max ELSE Undefined

\* three rows in two Cells, one of them a single row of a numeric max
C3_Witness ==
  /\ call.fn = "aggregateByYearMonth"
  /\ Len(call.rows) = 3
  /\ Len(call.cells) = 2
  /\ \E i \in Indices(call.cells) :
       /\ Len(call.cells[i].days) = 1
       /\ call.cells[i].avgMax = Num(31)

\* the texts of the temperature columns that are decimal numerals
Numerals == {"30", "31", "20"}

\* C10, as claimed: a temperature text that is not numeric (here: neither a
\* numeral nor empty) is parsed to NaN, no row is dropped, and a Cell
\* containing such a day has a NaN average.
C10_NaNPropagates ==
  /\ call.fn = "parseRow" =>
       /\ Len(call.data) = Len(call.rows)
       /\ \A i \in Indices(call.rows) :
            /\ call.rows[i].max_temperature \notin Numerals \cup {""} =>
                 call.data[i].max = NaN
            /\ call.rows[i].min_temperature \notin Numerals \cup {""} =>
                 call.data[i].min = NaN
  /\ call.fn = "aggregateByYearMonth" =>
       \A i \in Indices(call.cells) :
         LET c == call.cells[i]
         IN  /\ (\E k \in Indices(c.days) : c.days[k].max = NaN) => c.avgMax = NaN
             /\ (\E k \in Indices(c.days) : c.days[k].min = NaN) => c.avgMin = NaN

\* C10, amended: a temperature text that is neither a numeral nor empty is
\* parsed to NaN (an empty text to 0), no row is dropped, and the day stays in
\* the days of its Cell; the NaN does not reach the average of that Cell,
\* which is the mean of the numbers among the Cell's days, and undefined when
\* there is none.
C10_NaNParsedThenSkipped ==
  /\ call.fn = "parseRow" =>
       /\ Len(call.data) = Len(call.rows)
       /\ \A i \in Indices(call.rows) :
            LET maxText == call.rows[i].max_temperature
                minText == call.rows[i].min_temperature
            IN  /\ maxText \notin Numerals \cup {""} => call.data[i].max = NaN
                /\ minText \notin Numerals \cup {""} => call.data[i].min = NaN
                /\ maxText = "" => call.data[i].max = Num(0)
                /\ minText = "" => call.data[i].min = Num(0)
  /\ call.fn = "aggregateByYearMonth" =>
       /\ \A k \in Indices(Input) :
            \E i \in Indices(call.cells) :
              \E j \in Indices(call.cells[i].days) : call.cells[i].days[j] = Input[k]
       /\ \A i \in Indices(call.cells) :
            LET c == call.cells[i]
            IN  /\ c.avgMax # NaN
                /\ c.avgMin # NaN
                /\ (\E k \in Indices(c.days) : c.days[k].max = NaN) =>
                     IsMeanOfNumbers(c.avgMax, MaxOf(c.days))
                /\ (\E k \in Indices(c.days) : c.days[k].min = NaN) =>
                     IsMeanOfNumbers(c.avgMin, MinOf(c.days))

\* a Cell of two days: the max of the first and the min of the second are
\* not numeric, and each average is the other day's value
C10_Witness ==
  /\ call.fn = "aggregateByYearMonth"
  /\ \E i \in Indices(call.cells) :
       LET c == call.cells[i]
       IN  /\ Len(c.days) = 2
           /\ c.days[1].max = NaN
           /\ c.avgMax = Num(31)
           /\ c.days[2].min = NaN
           /\ c.avgMin = Num(20)

\* ------------------------------------------------------------------------
\* Properties of the page (checked under Spec)
\* ------------------------------------------------------------------------

ValueAfter(d, k) == IF k % 2 = 0 THEN d.avgMax ELSE d.avgMin

WordAfter(k) == IF k % 2 = 0 THEN "Max" ELSE "Min"

\* C5: a mouseover on a cell shows the tooltip with the mode word and the
\* value of the mode current at the time of the hover (avgMax after an even
\* number of clicks, avgMin after an odd number); a mouseout hides it; the
\* tooltip is visible exactly when the last pointer event on a cell was a
\* mouseover.
C5_TooltipFollowsPointer ==
  /\ [](tooltip.display = "block" <=> lastPointer = "over")
  /\ [][\A i \in Indices(cells), event \in PointerEvents :
         Mouseover(i, event) =>
           /\ tooltip'.display = "block"
           /\ Len(tooltip'.html) = 1
           /\ tooltip'.html[1].word = WordAfter(clicks)
           /\ tooltip'.html[1].value = toFixed1(ValueAfter(cells[i], clicks))]_vars
  /\ [][Mouseout => tooltip'.display = "none"]_vars

\* C6: the two-year synthetic file (every day 30 / 20) renders 24 cells, one
\* per month of 2020 and 2021, each with avgMax 30 and avgMin 20; every fill
\* is the color of 30 before the first click, and after one click every fill
\* is the color of 20 and the label reads "Showing: Min Temp".
C6_EndToEnd ==
  phase = "rendered" =>
    /\ Len(cells) = 24
    /\ Len(fill) = 24
    /\ {<<cells[i].year.n, cells[i].month.n>> : i \in Indices(cells)}
         = {2020, 2021} \X (0..11)
    /\ \A i \in Indices(cells) :
         /\ cells[i].avgMax = Num(30)
         /\ cells[i].avgMin = Num(20)
         /\ clicks = 0 => fill[i] = colorScale(Num(30))
         /\ clicks = 1 => fill[i] = colorScale(Num(20))
    /\ colorScale(Num(30)) # colorScale(Num(20))
    /\ clicks = 1 => label = "Showing: Min Temp"

\* the synthetic file rendered and clicked once
C6_Witness ==
  /\ csv = SyntheticCsv
  /\ phase = "rendered"
  /\ clicks = 1
  /\ Len(cells) = 24

\* C7: mode starts as "max" and is always "max" or "min"; once the chart is
\* rendered every cell's fill is the color of its avgMax when mode is "max"
\* and of its avgMin when mode is "min"; after at least one click the label
\* names the current mode.
C7_DisplayMatchesMode ==
  /\ mode \in {"max", "min"}
  /\ clicks = 0 => mode = "max"
  /\ phase = "rendered" =>
       /\ Len(fill) = Len(cells)
       /\ \A i \in Indices(cells) :
            fill[i] = colorScale(IF mode = "max" THEN cells[i].avgMax
                                                 ELSE cells[i].avgMin)
  /\ clicks >= 1 =>
       label = IF mode = "max" THEN "Showing: Max Temp" ELSE "Showing: Min Temp"

\* a cell whose two averages have different colors, shown in mode "min"
C7_Witness ==
  /\ phase = "rendered"
  /\ mode = "min"
  /\ clicks = 3
  /\ \E i \in Indices(cells) :
       /\ IsNum(cells[i].avgMax)
       /\ IsNum(cells[i].avgMin)
       /\ colorScale(cells[i].avgMax) # colorScale(cells[i].avgMin)

\* C8: mode is written only by the click handler; a mouseover or a mouseout
\* leaves mode, the fills and the label unchanged; a click leaves the
\* legend, the sparklines, the Cells and the tooltip unchanged.
C8_HandlerFrames ==
  /\ [][mode' # mode => Click]_vars
  /\ [][(Hover \/ Mouseout) => UNCHANGED <<mode, fill, label>>]_vars
  /\ [][Click => UNCHANGED <<legend, sparklines, cells, axes, tooltip>>]_vars

\* a click while the tooltip is shown
C8_Witness ==
  /\ clicks >= 1
  /\ lastPointer = "over"
  /\ tooltip.display = "block"
  /\ Len(tooltip.html) = 1
  /\ tooltip.html[1].word # ModeWord(mode)

NothingDrawn ==
  /\ cells = <<>>
  /\ fill = <<>>
  /\ axes = <<>>
  /\ sparklines = <<>>
  /\ legend = <<>>
  /\ listeners = {}

\* C9: drawMatrix runs only once the load has succeeded, and then exactly
\* once; while the load is pending or after it has failed nothing is drawn,
\* no handler is installed and mode is "max"; a failed load stays failed; a
\* click without a click handler leaves mode as it is.
C9_LoadOrdering ==
  /\ [](/\ renders \in {0, 1}
        /\ renders = 1 <=> phase = "rendered"
        /\ phase # "rendered" => NothingDrawn /\ mode = "max" /\ clicks = 0
        /\ phase = "rendered" => legend # <<>> /\ axes # <<>> /\ "click" \in listeners)
  /\ [][phase = "failed" => phase' = "failed"]_vars
  /\ [][phase = "rendered" => phase' = "rendered" /\ renders' = renders]_vars
  /\ [][ClickNoHandler => mode' = mode]_vars

\* the load has failed
C9_Witness == phase = "failed" /\ csv # <<>>

====
